---- MODULE Spec2Model ----
(***************************************************************************)
(* A model of the appointment routes (server/routes/appointments.js), the  *)
(* Appointment and Billing schemas (server/models) and the billing routes  *)
(* of the hospital management server.                                      *)
(*                                                                         *)
(* Spec      the appointment store under the booking, update, cancel and   *)
(*           delete routes; a handler is split where it awaits the         *)
(*           database between its conflict lookup and its write.           *)
(* SpecBill  the bill store under the billing routes and the Billing       *)
(*           schema's pre('save') hook.                                    *)
(* SpecCreate one POST /api/billing request with its response.           *)
(* SpecAvail the check-availability route and the booking page's slot     *)
(*           enumeration over drawn requests.                              *)
(* SpecBooking the two booking routes over drawn doctors and clock values. *)
(* SpecRecompute the pre('save') hook run on drawn documents.                *)
(***************************************************************************)
EXTENDS Integers, Sequences, FiniteSets, Bags, TLC

VARIABLES
    appointments,   \* the Appointment collection: a set of documents
    nextId,         \* the next fresh _id of the Appointment collection
    inflight,       \* handler invocations suspended at an await before their write
    doctors,        \* the Doctor collection: doctorId -> [status, availability]
    bills,          \* the Billing collection: a set of documents
    nextBill,       \* the next fresh _id of the Billing collection
    now,            \* the clock read by new Date()
    billIn,         \* a Billing document in memory, as constructed, before save()
    saved,          \* the successive results of save() on that document
    billReq,        \* the request handed to POST /api/billing
    billResp,       \* the response to that request
    availReq,       \* the request handed to check-availability
    availResp,      \* the response of check-availability
    slots           \* the time slots the booking page computed for the request

apptVars == <<appointments, nextId, inflight, doctors>>
billVars == <<bills, nextBill, now, billIn, saved, billReq, billResp>>
availVars == <<availReq, availResp, slots>>
vars == <<appointments, nextId, inflight, doctors,
          bills, nextBill, now, billIn, saved, billReq, billResp,
          availReq, availResp, slots>>

-----------------------------------------------------------------------------
(* Bounds *)

MaxAppointments == 2
MaxBills == 1
MaxItems == 2
MaxClock == 2
MaxSaves == 2
MaxDay == 7

Absent == "absent"
NoResponse == [status |-> 0, message |-> "none"]
NoBill == [status |-> "none"]
NoBillRequest == [user |-> "none"]
NoRequest == [complete |-> FALSE]
NoSlots == [done |-> FALSE, list |-> << >>]

-----------------------------------------------------------------------------
(* Users, roles, doctors, patients *)

PatientUsers == {"u1"}
StaffUsers == {"s1"}
Users == PatientUsers \cup StaffUsers

Role(u) == IF u \in PatientUsers THEN "patient" ELSE "receptionist"

\* authorize('admin', 'doctor', 'receptionist', 'patient'): the middleware of
\* the routes that are open to patients as well.
requirePatient(u) == Role(u) \in {"admin", "doctor", "receptionist", "patient"}

\* authorize('admin', 'doctor', 'receptionist')
requireStaff(u) == Role(u) \in {"admin", "doctor", "receptionist"}

\* The Patient collection: documents with their own _id (a Patient document's
\* _id is not the _id of the User it belongs to).
PatientDocs == {"pat1"}

DoctorIds == {"d1", "d2"}
DoctorStatus == {"active", "inactive", "on_leave"}

\* The keys of doctorSchema.availability
WeekdayKeys ==
    {"monday", "tuesday", "wednesday", "thursday", "friday", "saturday", "sunday"}

\* A weekly availability with the schema's defaults for available (true on
\* monday..friday, false on saturday and sunday) and a 09:00-17:00 window.
WeekdaysOnly ==
    [ k \in WeekdayKeys |->
        [ available |-> k \notin {"saturday", "sunday"},
          start |-> "09:00", end |-> "17:00" ] ]

\* A weekly availability whose saturday is open and whose monday is closed.
SaturdayNotMonday ==
    [ k \in WeekdayKeys |->
        [ available |-> k \notin {"monday", "sunday"},
          start |-> "09:00", end |-> "17:00" ] ]

\* A weekly availability open on monday only, with a window that does not
\* start on the half hour.
EarlyMonday ==
    [ k \in WeekdayKeys |->
        [ available |-> k = "monday", start |-> "08:59", end |-> "10:30" ] ]

AppointmentStatus ==
    {"scheduled", "confirmed", "in_progress", "completed", "cancelled", "no_show"}

Dates == {1, 2}
\* appointmentTime is a String of the schema, compared as a string.
Times == {"10:00", "10:30"}

\* The (doctorId, appointmentDate, appointmentTime) triples of booking requests.
BookingSlots ==
    { <<"d1", 1, "10:00">>, <<"d1", 1, "10:30">>, <<"d2", 2, "10:00">> }

\* The slots the requests of the store specification ask for: one of each
\* doctor.
ContendedSlots == { <<"d1", 1, "10:00">>, <<"d2", 2, "10:00">> }

SlotOf(a) == <<a.doctorId, a.appointmentDate, a.appointmentTime>>

\* Times of day as the strings the requests and the doctor schema carry.
TimeStrings == {"08:59", "09:00", "10:00", "10:30", "16:59", "17:00"}

\* new Date(`2000-01-01T${t}`): the time of day, in minutes, that the string
\* denotes; Date objects compare by it.
ParseTime(t) ==
    CASE t = "08:59" -> 8 * 60 + 59
      [] t = "09:00" -> 9 * 60
      [] t = "10:00" -> 10 * 60
      [] t = "10:30" -> 10 * 60 + 30
      [] t = "16:59" -> 16 * 60 + 59
      [] t = "17:00" -> 17 * 60

\* new Date(`${appointmentDate}T${appointmentTime}`) as a number of minutes;
\* dates are day numbers.
DateTime(date, time) == date * 24 * 60 + ParseTime(time)

-----------------------------------------------------------------------------
(* Appointment.findOne({doctorId, appointmentDate, appointmentTime,        *)
(*                      status: {$nin: ['cancelled', 'completed']}})        *)

\* (mutant: the lookup without its status filter)
ConflictingAnyStatus(store, slot) ==
    { a \in store : SlotOf(a) = slot }

\* (mutant: the lookup also matching an appointment whose duration covers the
\* requested start time)
ConflictingOverlapping(store, slot) ==
    { a \in store :
        /\ a.doctorId = slot[1]
        /\ a.appointmentDate = slot[2]
        /\ a.status \notin {"cancelled", "completed"}
        /\ ParseTime(a.appointmentTime) <= ParseTime(slot[3])
        /\ ParseTime(slot[3]) < ParseTime(a.appointmentTime) + a.duration }

ConflictingAppointment(store, slot) ==
    { a \in store : SlotOf(a) = slot /\ a.status \notin {"cancelled", "completed"} }

Resp(code, msg) == [status |-> code, message |-> msg]
Proceed == Resp(0, "proceed")

\* Request bodies of the two booking routes.  valid abstracts the outcome of
\* the express-validator chain; status is a field the body may carry.
BodyStatuses == {Absent, "confirmed", "cancelled"}
BookingBodies ==
    [ valid : {TRUE}, patientId : {"pat1"}, slot : ContendedSlots,
      status : BodyStatuses, duration : {{}} ]
    \cup
    { [valid |-> FALSE, patientId |-> "pat1", slot |-> <<"d1", 1, "10:00">>,
       status |-> Absent, duration |-> {}],
      [valid |-> TRUE, patientId |-> "pat0", slot |-> <<"d1", 1, "10:00">>,
       status |-> Absent, duration |-> {}],
      [valid |-> TRUE, patientId |-> "pat1", slot |-> <<"d0", 1, "10:00">>,
       status |-> Absent, duration |-> {}] }

\* appointmentSchema.duration: default 30 (minutes)
DefaultDuration == 30

\* Bodies that may also carry a duration: {} when the field is left out,
\* else {the number of minutes}.
BookingBodiesWithDuration ==
    [ valid : {TRUE}, patientId : {"pat1"}, slot : BookingSlots,
      status : {Absent, "confirmed"}, duration : {{}, {60}} ]

\* The duration a created document gets: the body's, else the schema default.
DurationOf(body) ==
    IF body.duration = {} THEN DefaultDuration ELSE CHOOSE d \in body.duration : TRUE

\* A new Appointment document (id 0: before it has an _id).
NewAppointment(patientId, slot, status) ==
    [ id |-> 0,
      patientId |-> patientId,
      doctorId |-> slot[1],
      appointmentDate |-> slot[2],
      appointmentTime |-> slot[3],
      status |-> status,
      duration |-> DefaultDuration,
      cancelledBy |-> Absent,
      cancelledAt |-> {} ]   \* unset, or {the Date it was set to}

\* router.post('/patient'): everything up to and including the conflict lookup.
PatientBookingCheck(u, body, store, docs) ==
    IF ~body.valid THEN Resp(400, "validation")
    ELSE IF Role(u) # "patient" THEN Resp(403, "only_patients")
    ELSE IF body.slot[1] \notin DOMAIN docs \/ docs[body.slot[1]].status # "active"
         THEN Resp(404, "doctor_unavailable")
    ELSE IF ConflictingAppointment(store, body.slot) # {}
         THEN Resp(400, "slot_booked")
    ELSE Proceed

\* router.post('/patient'): appointmentData = {...req.body, patientId, status: 'scheduled'}
PatientAppointmentData(u, body) ==
    [NewAppointment(u, body.slot, "scheduled") EXCEPT !.duration = DurationOf(body)]

\* router.post('/'): requireStaff, then everything up to the conflict lookup.
StaffBookingCheck(u, body, store, docs) ==
    IF ~requireStaff(u) THEN Resp(403, "role_not_authorized")
    ELSE IF ~body.valid THEN Resp(400, "validation")
    ELSE IF body.patientId \notin PatientDocs THEN Resp(404, "patient_not_found")
    ELSE IF body.slot[1] \notin DOMAIN docs THEN Resp(404, "doctor_not_found")
    ELSE IF ConflictingAppointment(store, body.slot) # {}
         THEN Resp(400, "slot_booked")
    ELSE Proceed

\* router.post('/'): Appointment.create(req.body); the schema defaults status
StaffAppointmentData(u, body) ==
    [NewAppointment(body.patientId, body.slot,
                    IF body.status = Absent THEN "scheduled" ELSE body.status)
        EXCEPT !.duration = DurationOf(body)]

\* Appointment.create(data): the document gets a fresh _id; no index of the
\* schema is unique, so the insert never fails on the slot.
Create(store, id, data) ==
    store \cup { [data EXCEPT !.id = id] }


\* Every booking that passed its lookup can still get a fresh _id.
Capacity == (nextId - 1) + BagCardinality(inflight) < MaxAppointments

\* A self-booking route that goes on to Appointment.create whatever the
\* checks answered.
PatientBookingLookupUnchecked(u, body) ==
    /\ Capacity
    /\ inflight' = inflight (+) SetToBag({[route |-> "book_patient",
                       user |-> u, data |-> PatientAppointmentData(u, body)]})
    /\ UNCHANGED <<appointments, nextId, doctors>>

\* POST /api/appointments/patient, up to the await of Appointment.create:
\* a rejected request is answered at once and changes nothing.
PatientBookingLookup(u, body) ==
    /\ IF PatientBookingCheck(u, body, appointments, doctors) = Proceed
       THEN /\ Capacity
            /\ inflight' = inflight (+) SetToBag({[route |-> "book_patient",
                               user |-> u, data |-> PatientAppointmentData(u, body)]})
       ELSE inflight' = inflight
    /\ UNCHANGED <<appointments, nextId, doctors>>

\* POST /api/appointments, up to the await of Appointment.create
StaffBookingLookup(u, body) ==
    /\ IF StaffBookingCheck(u, body, appointments, doctors) = Proceed
       THEN /\ Capacity
            /\ inflight' = inflight (+) SetToBag({[route |-> "book_staff",
                               user |-> u, data |-> StaffAppointmentData(u, body)]})
       ELSE inflight' = inflight
    /\ UNCHANGED <<appointments, nextId, doctors>>

\* Both booking routes, from Appointment.create to the 201 response.
BookingCreate(req) ==
    /\ req \in BagToSet(inflight)
    /\ appointments' = Create(appointments, nextId, req.data)
    /\ nextId' = nextId + 1
    /\ inflight' = inflight (-) SetToBag({req})
    /\ UNCHANGED doctors

-----------------------------------------------------------------------------
(* PUT /api/appointments/:id, DELETE /api/appointments/:id                  *)

AppointmentIds == 1..MaxAppointments

FindById(store, id) == { a \in store : a.id = id }

\* Bodies of PUT /:id: the fields the body carries replace the stored ones.
\* valid is the outcome of the validator chain (status isIn the enum).
UpdateBodies ==
    [ valid : {TRUE}, status : AppointmentStatus \cup {Absent} ]
    \cup { [valid |-> FALSE, status |-> Absent] }

\* router.put('/:id') up to the database call
UpdateCheck(u, id, body, store) ==
    IF ~requireStaff(u) THEN Resp(403, "role_not_authorized")
    ELSE IF ~body.valid THEN Resp(400, "validation")
    ELSE IF FindById(store, id) = {} THEN Resp(404, "appointment_not_found")
    ELSE Proceed

\* Appointment.findByIdAndUpdate(id, req.body, {new: true, runValidators: true})
FindByIdAndUpdate(store, id, body) ==
    { IF a.id = id /\ body.status # Absent
      THEN [a EXCEPT !.status = body.status]
      ELSE a : a \in store }

\* router.put('/:id')
UpdateAppointment(u, id, body) ==
    /\ appointments' =
          IF UpdateCheck(u, id, body, appointments) = Proceed
          THEN FindByIdAndUpdate(appointments, id, body)
          ELSE appointments
    /\ UNCHANGED <<nextId, inflight, doctors>>

\* router.delete('/:id')
DeleteAppointment(u, id) ==
    /\ appointments' =
          IF requireStaff(u)
          THEN appointments \ FindById(appointments, id)
          ELSE appointments
    /\ UNCHANGED <<nextId, inflight, doctors>>

-----------------------------------------------------------------------------
(* PUT /api/appointments/:id/cancel                                         *)

\* .populate('patientId', 'name email'): the Patient document whose _id is the
\* stored patientId, or null when the Patient collection has none.
Populate(patientId) == IF patientId \in PatientDocs THEN patientId ELSE "null"

\* The checks of the cancel route without the test of the stored status.
CancelCheckIgnoringStatus(u, id, store) ==
    IF FindById(store, id) = {} THEN Resp(404, "appointment_not_found")
    ELSE LET a == CHOOSE x \in FindById(store, id) : TRUE IN
    IF Role(u) = "patient" /\ Populate(a.patientId) = "null"
        THEN Resp(500, "server_error")
    ELSE IF Role(u) = "patient" /\ Populate(a.patientId) # u
        THEN Resp(403, "only_own_appointments")
    ELSE Proceed

\* The checks of the cancel route without the comparison of the appointment's
\* patient with the requester.
CancelCheckIgnoringOwner(u, id, store) ==
    IF FindById(store, id) = {} THEN Resp(404, "appointment_not_found")
    ELSE LET a == CHOOSE x \in FindById(store, id) : TRUE IN
    IF a.status = "completed" \/ a.status = "cancelled"
        THEN Resp(400, "cannot_be_cancelled")
    ELSE Proceed

\* The checks between Appointment.findById and appointment.save().
\* appointment.patientId._id on a null patientId throws, which the handler's
\* catch turns into a 500.
CancelCheck(u, id, store) ==
    IF FindById(store, id) = {} THEN Resp(404, "appointment_not_found")
    ELSE LET a == CHOOSE x \in FindById(store, id) : TRUE IN
    IF Role(u) = "patient" /\ Populate(a.patientId) = "null"
        THEN Resp(500, "server_error")
    ELSE IF Role(u) = "patient" /\ Populate(a.patientId) # u
        THEN Resp(403, "only_own_appointments")
    ELSE IF a.status = "completed" \/ a.status = "cancelled"
        THEN Resp(400, "cannot_be_cancelled")
    ELSE Proceed

\* appointment.status = 'cancelled'; cancelledAt = new Date(); cancelledBy =
\* req.user._id; appointment.save()
SaveCancelled(store, id, u, t) ==
    { IF a.id = id
      THEN [a EXCEPT !.status = "cancelled", !.cancelledAt = {t}, !.cancelledBy = u]
      ELSE a : a \in store }

\* router.put('/:id/cancel')
CancelAppointment(u, id) ==
    /\ appointments' =
          IF CancelCheck(u, id, appointments) = Proceed
          THEN SaveCancelled(appointments, id, u, now)
          ELSE appointments
    /\ UNCHANGED <<nextId, inflight, doctors>>

-----------------------------------------------------------------------------
(* The Billing schema and its pre('save') hook                              *)

BillStatus == {"pending", "partial", "paid", "overdue", "cancelled"}

RECURSIVE SumTotals(_)
\* this.items.reduce((sum, item) => sum + item.total, 0)
SumTotals(items) ==
    IF items = << >> THEN 0 ELSE Head(items).total + SumTotals(Tail(items))

\* (mutant: the subtotal accumulated onto the stored one)
RecomputeAccumulating(b, t) ==
    LET subtotal == b.subtotal + SumTotals(b.items)
        totalAmount == subtotal + b.tax - b.discount
        balance == totalAmount - b.paidAmount
    IN  [ b EXCEPT
            !.subtotal = subtotal,
            !.totalAmount = totalAmount,
            !.balance = balance,
            !.status = IF balance <= 0 THEN "paid"
                       ELSE IF b.paidAmount > 0 THEN "partial"
                       ELSE IF t > b.dueDate THEN "overdue"
                       ELSE @ ]

\* (mutant: the balance clamped at zero)
RecomputeClampedBalance(b, t) ==
    LET subtotal == SumTotals(b.items)
        totalAmount == subtotal + b.tax - b.discount
        balance == IF totalAmount - b.paidAmount < 0 THEN 0
                   ELSE totalAmount - b.paidAmount
    IN  [ b EXCEPT
            !.subtotal = subtotal,
            !.totalAmount = totalAmount,
            !.balance = balance,
            !.status = IF balance <= 0 THEN "paid"
                       ELSE IF b.paidAmount > 0 THEN "partial"
                       ELSE IF t > b.dueDate THEN "overdue"
                       ELSE @ ]

\* billingSchema.pre('save'): t is new Date()
Recompute(b, t) ==
    LET subtotal == SumTotals(b.items)
        totalAmount == subtotal + b.tax - b.discount
        balance == totalAmount - b.paidAmount
    IN  [ b EXCEPT
            !.subtotal = subtotal,
            !.totalAmount = totalAmount,
            !.balance = balance,
            !.status = IF balance <= 0 THEN "paid"
                       ELSE IF b.paidAmount > 0 THEN "partial"
                       ELSE IF t > b.dueDate THEN "overdue"
                       ELSE @ ]

\* The schema's validators (min, required, enum) on a document; Mongoose runs
\* them before the pre('save') hooks of the schema.
SchemaValid(b) ==
    /\ \A i \in 1..Len(b.items) :
          b.items[i].quantity >= 1 /\ b.items[i].unitPrice >= 0 /\ b.items[i].total >= 0
    /\ b.subtotal >= 0
    /\ b.tax >= 0
    /\ b.discount >= 0
    /\ b.totalAmount >= 0
    /\ b.paidAmount >= 0
    /\ b.status \in BillStatus

-----------------------------------------------------------------------------
(* The billing routes                                                       *)

Quantities == {0 - 1, 1, 2}
UnitPrices == {0 - 5, 0, 50}
Taxes == {0, 10}
Discounts == {0, 200}
PaidAmounts == {0, 50, 110}
DueDates == {1}

ItemInputs == [quantity : Quantities, unitPrice : UnitPrices]

RECURSIVE SeqsUpTo(_, _)
SeqsUpTo(S, n) ==
    IF n = 0 THEN { << >> }
    ELSE LET shorter == SeqsUpTo(S, n - 1) IN
         shorter \cup { Append(q, x) : q \in shorter, x \in S }

\* Bodies of POST /api/billing.  hasTotals: the body carries the subtotal and
\* totalAmount the schema requires (the hook overwrites their values).
CreateBillBodies ==
    [ patientId : {"pat1", "pat0"},
      items : SeqsUpTo(ItemInputs, MaxItems),
      tax : Taxes,
      discount : Discounts,
      paidAmount : PaidAmounts,
      status : BillStatus \cup {Absent},
      dueDate : DueDates,
      hasTotals : BOOLEAN ]

\* The express-validator chain of router.post('/')
CreateBillValid(body) ==
    /\ Len(body.items) >= 1
    /\ \A i \in 1..Len(body.items) :
          body.items[i].quantity >= 1 /\ body.items[i].unitPrice >= 0
    /\ body.tax >= 0
    /\ body.discount >= 0

\* items.map(item => ({...item, total: item.quantity * item.unitPrice}))
CalculatedItems(items) ==
    [ i \in 1..Len(items) |->
        [ quantity |-> items[i].quantity,
          unitPrice |-> items[i].unitPrice,
          total |-> items[i].quantity * items[i].unitPrice ] ]

\* new Billing({...req.body, items: calculatedItems, generatedBy}): the
\* document before validation, with the schema's defaults.
BillingData(body) ==
    [ id |-> 0,
      items |-> CalculatedItems(body.items),
      subtotal |-> 0,
      tax |-> body.tax,
      discount |-> body.discount,
      totalAmount |-> 0,
      paidAmount |-> body.paidAmount,
      balance |-> 0,
      status |-> IF body.status = Absent THEN "pending" ELSE body.status,
      dueDate |-> body.dueDate ]

\* (mutant: the checks without the validators of the items, the amounts and
\* the schema)
CreateBillCheckUnvalidated(u, body) ==
    IF ~requireStaff(u) THEN Resp(403, "role_not_authorized")
    ELSE IF body.patientId \notin PatientDocs THEN Resp(404, "patient_not_found")
    ELSE IF ~body.hasTotals THEN Resp(500, "server_error")
    ELSE Proceed

\* router.post('/') up to Billing.create
CreateBillCheck(u, body) ==
    IF ~requireStaff(u) THEN Resp(403, "role_not_authorized")
    ELSE IF ~CreateBillValid(body) THEN Resp(400, "validation")
    ELSE IF body.patientId \notin PatientDocs THEN Resp(404, "patient_not_found")
    ELSE IF ~body.hasTotals \/ ~SchemaValid(BillingData(body))
         THEN Resp(500, "server_error")
    ELSE Proceed

\* router.post('/'): Billing.create validates, runs the pre('save') hook and
\* inserts the document.
CreateBill(u, body) ==
    /\ IF CreateBillCheck(u, body) = Proceed
       THEN /\ bills' = bills \cup
                   { [Recompute(BillingData(body), now) EXCEPT !.id = nextBill] }
            /\ nextBill' = nextBill + 1
       ELSE UNCHANGED <<bills, nextBill>>
    /\ UNCHANGED <<now, billIn, saved>>

BillIds == 1..MaxBills

\* Item arrays a PUT body may carry, each item with the total the caller
\* gives it.
UpdatedItems ==
    { << [quantity |-> 1, unitPrice |-> 50, total |-> 50] >>,
      << [quantity |-> 2, unitPrice |-> 50, total |-> 0] >> }

\* Bodies of PUT /api/billing/:id: one field of the bill.
UpdateBillBodies ==
    [ field : {"paidAmount"}, value : PaidAmounts \cup {0 - 1} ]
    \cup [ field : {"tax"}, value : Taxes ]
    \cup [ field : {"discount"}, value : Discounts ]
    \cup [ field : {"status"}, value : BillStatus \cup {"bogus"} ]
    \cup [ field : {"items"}, value : UpdatedItems ]

\* The express-validator chain of router.put('/:id')
UpdateBillValid(body) ==
    /\ body.field = "status" => body.value \in BillStatus
    /\ body.field = "paidAmount" => body.value >= 0

\* Billing.findByIdAndUpdate(id, updateData, {new: true, runValidators: true}):
\* a $set of the body's fields; no save() is involved, so the pre('save')
\* hook does not run.
ApplyBillUpdate(b, body) ==
    CASE body.field = "paidAmount" -> [b EXCEPT !.paidAmount = body.value]
      [] body.field = "tax" -> [b EXCEPT !.tax = body.value]
      [] body.field = "discount" -> [b EXCEPT !.discount = body.value]
      [] body.field = "status" -> [b EXCEPT !.status = body.value]
      [] body.field = "items" -> [b EXCEPT !.items = body.value]

\* router.put('/:id')
UpdateBill(u, id, body) ==
    /\ bills' =
          IF requireStaff(u) /\ UpdateBillValid(body)
          THEN { IF b.id = id THEN ApplyBillUpdate(b, body) ELSE b : b \in bills }
          ELSE bills
    /\ UNCHANGED <<nextBill, now, billIn, saved, billReq, billResp>>

\* router.delete('/:id')
DeleteBill(u, id) ==
    /\ bills' = IF requireStaff(u) THEN { b \in bills : b.id # id } ELSE bills
    /\ UNCHANGED <<nextBill, now, billIn, saved, billReq, billResp>>

\* Time passes.
Tick ==
    /\ now < MaxClock
    /\ now' = now + 1
    /\ UNCHANGED <<bills, nextBill, billIn, saved, billReq, billResp>>

NextBill ==
    \/ /\ nextBill <= MaxBills      \* a fresh _id is left
       /\ \E u \in Users, body \in CreateBillBodies :
             /\ CreateBill(u, body)
             /\ UNCHANGED <<apptVars, availVars, billReq, billResp>>
    \/ \E u \in Users, id \in BillIds, body \in UpdateBillBodies :
          /\ UpdateBill(u, id, body)
          /\ UNCHANGED <<apptVars, availVars>>
    \/ \E u \in Users, id \in BillIds :
          /\ DeleteBill(u, id)
          /\ UNCHANGED <<apptVars, availVars>>
    \/ /\ Tick
       /\ UNCHANGED <<apptVars, availVars>>

-----------------------------------------------------------------------------
(* One POST /api/billing against the empty collection                       *)

\* router.post('/') with the response it sends: 201 with the created bill, or
\* the error response of the check that failed.
PostBill(u, body) ==
    /\ CreateBill(u, body)
    /\ billReq' = [user |-> u, body |-> body]
    /\ billResp' = IF CreateBillCheck(u, body) = Proceed
                   THEN Resp(201, "created")
                   ELSE CreateBillCheck(u, body)

NextCreate ==
    /\ billResp = NoResponse
    /\ \E u \in Users, body \in CreateBillBodies : PostBill(u, body)
    /\ UNCHANGED <<apptVars, availVars>>

-----------------------------------------------------------------------------
(* The pre('save') hook as a function of the document it is run on          *)

\* document.save() on the document in memory: the hook runs on the document
\* as it stands (as constructed, or as the previous save() left it).
SaveDocument ==
    /\ Len(saved) < MaxSaves
    /\ saved' = Append(saved,
                  Recompute(IF saved = << >> THEN billIn ELSE saved[Len(saved)], now))
    /\ UNCHANGED <<bills, nextBill, now, billIn, billReq, billResp>>

\* The documents Billing.create hands to save(): built from a request body
\* that passed the route's checks and the schema's validators.
InitRecompute ==
    /\ appointments = {}
    /\ nextId = 1
    /\ inflight = EmptyBag
    /\ doctors = [d \in DoctorIds |->
                      [status |-> IF d = "d1" THEN "active" ELSE "inactive",
                       availability |-> WeekdaysOnly]]
    /\ bills = {}
    /\ nextBill = 1
    /\ now \in 0..MaxClock
    /\ billIn \in { BillingData(body) :
                      body \in { x \in CreateBillBodies :
                                   CreateBillCheck("s1", x) = Proceed } }
    /\ saved = << >>
    /\ billReq = NoBillRequest
    /\ billResp = NoResponse
    /\ availReq = NoRequest
    /\ availResp = NoResponse
    /\ slots = NoSlots

NextRecompute ==
    /\ SaveDocument
    /\ UNCHANGED <<apptVars, availVars>>

SpecRecompute == InitRecompute /\ [][NextRecompute]_vars

-----------------------------------------------------------------------------
(* POST /api/appointments/check-availability                                *)

\* The weekday of a day number (day 1 is a monday).
Weekday(date) ==
    CASE date % 7 = 1 -> "monday"
      [] date % 7 = 2 -> "tuesday"
      [] date % 7 = 3 -> "wednesday"
      [] date % 7 = 4 -> "thursday"
      [] date % 7 = 5 -> "friday"
      [] date % 7 = 6 -> "saturday"
      [] date % 7 = 0 -> "sunday"

\* date.toLocaleDateString('en-US', { weekday: style }): Intl.DateTimeFormat
\* accepts 'narrow', 'short' and 'long' for weekday and throws a RangeError
\* for any other value.
ToLocaleWeekday(date, style) ==
    CASE style = "long" ->
            ( CASE Weekday(date) = "monday" -> "Monday"
                [] Weekday(date) = "tuesday" -> "Tuesday"
                [] Weekday(date) = "wednesday" -> "Wednesday"
                [] Weekday(date) = "thursday" -> "Thursday"
                [] Weekday(date) = "friday" -> "Friday"
                [] Weekday(date) = "saturday" -> "Saturday"
                [] Weekday(date) = "sunday" -> "Sunday" )
      [] style = "short" ->
            ( CASE Weekday(date) = "monday" -> "Mon"
                [] Weekday(date) = "tuesday" -> "Tue"
                [] Weekday(date) = "wednesday" -> "Wed"
                [] Weekday(date) = "thursday" -> "Thu"
                [] Weekday(date) = "friday" -> "Fri"
                [] Weekday(date) = "saturday" -> "Sat"
                [] Weekday(date) = "sunday" -> "Sun" )
      [] style = "narrow" ->
            ( CASE Weekday(date) \in {"tuesday", "thursday"} -> "T"
                [] Weekday(date) \in {"saturday", "sunday"} -> "S"
                [] Weekday(date) = "monday" -> "M"
                [] Weekday(date) = "wednesday" -> "W"
                [] Weekday(date) = "friday" -> "F" )
      [] OTHER -> "RangeError"

\* String.prototype.toLowerCase on the long weekday names
ToLowerCase(name) ==
    CASE name = "Monday" -> "monday"
      [] name = "Tuesday" -> "tuesday"
      [] name = "Wednesday" -> "wednesday"
      [] name = "Thursday" -> "thursday"
      [] name = "Friday" -> "friday"
      [] name = "Saturday" -> "saturday"
      [] name = "Sunday" -> "sunday"
      [] OTHER -> name

\* Two decimal digits of a number below 100
Pad2(n) == IF n < 10 THEN "0" \o ToString(n) ELSE ToString(n)

\* date.toLocaleTimeString('en-US', {hour: '2-digit', minute: '2-digit',
\* hour12: true}) of the time of day m (minutes since midnight)
ToLocaleTimeString(m) ==
    LET h == (m \div 60) % 24
        h12 == IF h % 12 = 0 THEN 12 ELSE h % 12
    IN Pad2(h12) \o ":" \o Pad2(m % 60) \o " " \o (IF h < 12 THEN "AM" ELSE "PM")

\* The while loop of getAvailableTimeSlots: start and end in minutes
RECURSIVE SlotsFrom(_, _)
SlotsFrom(start, end) ==
    IF start < end
    THEN <<ToLocaleTimeString(start)>> \o SlotsFrom(start + 30, end)
    ELSE << >>

\* getAvailableTimeSlots(doctor, date) of the booking page; doctor is a
\* document of docs or none, hasDate says that a date was chosen.
getAvailableTimeSlots(docs, doctorId, hasDate, date) ==
    IF doctorId \notin DOMAIN docs \/ ~hasDate THEN << >>
    ELSE LET dayOfWeek == ToLowerCase(ToLocaleWeekday(date, "long")) IN
    IF dayOfWeek \notin DOMAIN docs[doctorId].availability
            \/ ~docs[doctorId].availability[dayOfWeek].available
        THEN << >>
    ELSE LET availability == docs[doctorId].availability[dayOfWeek] IN
         SlotsFrom(ParseTime(availability.start), ParseTime(availability.end))

\* handleDateChange / handleDoctorSelect: the page computes the slots of the
\* selected doctor and date.
ShowTimeSlots ==
    /\ ~slots.done
    /\ slots' = [done |-> TRUE,
                 list |-> getAvailableTimeSlots(doctors, availReq.doctorId,
                                                availReq.complete,
                                                availReq.appointmentDate)]
    /\ UNCHANGED <<availReq, availResp>>

\* Appointment.findOne({doctorId, appointmentDate, appointmentTime,
\*                      status: {$in: ['scheduled', 'confirmed']}})
ExistingAppointment(store, slot) ==
    { a \in store : SlotOf(a) = slot /\ a.status \in {"scheduled", "confirmed"} }

\* The bodies of check-availability: complete says that doctorId,
\* appointmentDate and appointmentTime are all there.
AvailabilityBodies ==
    [ complete : BOOLEAN, doctorId : {"d1", "d0"},
      appointmentDate : 1..MaxDay, appointmentTime : TimeStrings ]

\* router.post('/check-availability'); t is new Date()
CheckAvailability(body, docs, store, t) ==
    IF ~body.complete THEN Resp(400, "fields_required")
    ELSE IF body.doctorId \notin DOMAIN docs \/ docs[body.doctorId].status # "active"
        THEN Resp(400, "doctor_unavailable")
    ELSE IF DateTime(body.appointmentDate, body.appointmentTime) <= t
        THEN Resp(400, "must_be_in_future")
    ELSE LET dayOfWeek == ToLocaleWeekday(body.appointmentDate, "lowercase") IN
    IF dayOfWeek = "RangeError" THEN Resp(500, "server_error")
    ELSE IF dayOfWeek \notin DOMAIN docs[body.doctorId].availability
            \/ ~docs[body.doctorId].availability[dayOfWeek].available
        THEN Resp(400, "not_available_on_day")
    ELSE LET dayAvailability == docs[body.doctorId].availability[dayOfWeek] IN
    IF \/ ParseTime(body.appointmentTime) < ParseTime(dayAvailability.start)
       \/ ParseTime(body.appointmentTime) >= ParseTime(dayAvailability.end)
        THEN Resp(400, "outside_working_hours")
    ELSE IF ExistingAppointment(store,
                <<body.doctorId, body.appointmentDate, body.appointmentTime>>) # {}
        THEN Resp(400, "slot_booked")
    ELSE Resp(200, "available")

\* The handler answers the request at hand.
CheckSlot ==
    /\ availResp = NoResponse
    /\ availResp' = CheckAvailability(availReq, doctors, appointments, now)
    /\ UNCHANGED <<availReq, slots>>

\* The states check-availability is asked in: a doctor d1 of any status and
\* either weekly availability, a store that is empty or holds one appointment
\* of d1, and a clock before or within the week of the requested dates.
InitAvail ==
    /\ nextId = 2
    /\ inflight = EmptyBag
    /\ \E st \in DoctorStatus, av \in {WeekdaysOnly, SaturdayNotMonday, EarlyMonday} :
          doctors = [d \in {"d1"} |-> [status |-> st, availability |-> av]]
    /\ \E slot \in {1} \X {"09:00", "16:59"}, st \in AppointmentStatus \cup {Absent} :
          appointments =
             IF st = Absent THEN {}
             ELSE { [NewAppointment("pat1", <<"d1", slot[1], slot[2]>>, st)
                        EXCEPT !.id = 1] }
    /\ bills = {}
    /\ nextBill = 1
    /\ now \in {0, DateTime(1, "09:00")}
    /\ billIn = NoBill
    /\ saved = << >>
    /\ billReq = NoBillRequest
    /\ billResp = NoResponse
    /\ availReq \in AvailabilityBodies
    /\ availResp = NoResponse
    /\ slots = NoSlots

NextAvail ==
    \/ /\ CheckSlot
       /\ UNCHANGED <<apptVars, billVars>>
    \/ /\ ShowTimeSlots
       /\ UNCHANGED <<apptVars, billVars>>

SpecAvail == InitAvail /\ [][NextAvail]_vars

-----------------------------------------------------------------------------
(* The booking routes alone, over drawn doctors and clock values            *)

\* The states the booking routes are asked in: an empty store, a doctor d1 of
\* either weekly availability who is active or on leave, an inactive doctor
\* d2, and a clock before the requested times or at the first of them.
InitBooking ==
    /\ appointments = {}
    /\ nextId = 1
    /\ inflight = EmptyBag
    /\ \E st \in {"active", "on_leave"}, av \in {WeekdaysOnly, SaturdayNotMonday} :
          doctors = [d \in DoctorIds |->
                        IF d = "d1" THEN [status |-> st, availability |-> av]
                        ELSE [status |-> "inactive", availability |-> WeekdaysOnly]]
    /\ bills = {}
    /\ nextBill = 1
    /\ now \in {0, DateTime(1, "10:00")}
    /\ billIn = NoBill
    /\ saved = << >>
    /\ billReq = NoBillRequest
    /\ billResp = NoResponse
    /\ availReq = NoRequest
    /\ availResp = NoResponse
    /\ slots = NoSlots

NextBooking ==
    \/ /\ \E u \in Users, body \in BookingBodiesWithDuration :
             PatientBookingLookup(u, body)
       /\ UNCHANGED <<billVars, availVars>>
    \/ /\ \E u \in Users, body \in BookingBodiesWithDuration :
             StaffBookingLookup(u, body)
       /\ UNCHANGED <<billVars, availVars>>
    \/ /\ \E req \in BagToSet(inflight) : BookingCreate(req)
       /\ UNCHANGED <<billVars, availVars>>

SpecBooking == InitBooking /\ [][NextBooking]_vars

-----------------------------------------------------------------------------
(* The appointment specification *)

Init ==
    /\ appointments = {}
    /\ nextId = 1
    /\ inflight = EmptyBag
    /\ doctors = [d \in DoctorIds |->
                      [status |-> IF d = "d1" THEN "active" ELSE "inactive",
                       availability |-> WeekdaysOnly]]
    /\ bills = {}
    /\ nextBill = 1
    /\ now = 0
    /\ billIn = NoBill
    /\ saved = << >>
    /\ billReq = NoBillRequest
    /\ billResp = NoResponse
    /\ availReq = NoRequest
    /\ availResp = NoResponse
    /\ slots = NoSlots

Next ==
    \/ \E u \in Users, body \in BookingBodies :
          /\ PatientBookingLookup(u, body)
          /\ UNCHANGED <<billVars, availVars>>
    \/ \E u \in Users, body \in BookingBodies :
          /\ StaffBookingLookup(u, body)
          /\ UNCHANGED <<billVars, availVars>>
    \/ \E req \in BagToSet(inflight) :
          /\ BookingCreate(req)
          /\ UNCHANGED <<billVars, availVars>>
    \/ \E u \in Users, id \in AppointmentIds, body \in UpdateBodies :
          /\ UpdateAppointment(u, id, body)
          /\ UNCHANGED <<billVars, availVars>>
    \/ \E u \in Users, id \in AppointmentIds :
          /\ DeleteAppointment(u, id)
          /\ UNCHANGED <<billVars, availVars>>
    \/ \E u \in Users, id \in AppointmentIds :
          /\ CancelAppointment(u, id)
          /\ UNCHANGED <<billVars, availVars>>

Spec == Init /\ [][Next]_vars

SpecBill == Init /\ [][NextBill]_vars

SpecCreate == Init /\ [][NextCreate]_vars

-----------------------------------------------------------------------------
(* Claims about the appointment store *)

NonTerminal(a) == a.status \notin {"cancelled", "completed"}

\* The request got as far as the working-hours check and passed it.
PassedWorkingHours(resp) == resp.message \in {"slot_booked", "available"}

\* The doctor's entry for the weekday of the requested date is available and
\* start <= time < end.
InWorkingWindow(req, docs) ==
    LET entry == docs[req.doctorId].availability[Weekday(req.appointmentDate)] IN
    /\ entry.available
    /\ ParseTime(entry.start) <= ParseTime(req.appointmentTime)
    /\ ParseTime(req.appointmentTime) < ParseTime(entry.end)

\* C1: no two stored appointments whose status is outside {cancelled,
\* completed} have the same (doctorId, appointmentDate, appointmentTime).
C1_UniqueNonTerminalSlot ==
    \A a \in appointments, b \in appointments :
        (a.id # b.id /\ NonTerminal(a) /\ NonTerminal(b)) => SlotOf(a) # SlotOf(b)

\* C2: a booking that passed its conflict lookup does not get its appointment
\* stored when, at the time of its write, another non-terminal appointment
\* already holds the same (doctorId, appointmentDate, appointmentTime): of two
\* concurrent requests for one slot at most one succeeds.
C2_WriteTimeConflictRejected ==
    [][ \A req \in BagToSet(inflight) :
          ( /\ BookingCreate(req)
            /\ NonTerminal(req.data)
            /\ ConflictingAppointment(appointments, SlotOf(req.data)) # {} )
          => appointments' = appointments ]_vars

\* C3: once an appointment's status is completed or cancelled, no step changes
\* its status.
C3_TerminalStatusIsFinal ==
    [][ \A a \in appointments : \A b \in appointments' :
          (a.id = b.id /\ a.status \in {"completed", "cancelled"})
          => b.status = a.status ]_vars

\* The valid request of a patient / of staff for a slot.
PatientRequest(slot) ==
    [valid |-> TRUE, patientId |-> "pat1", slot |-> slot, status |-> Absent,
     duration |-> {}]

\* C4: a booking request for the slot of a stored appointment that is still
\* scheduled is rejected with the slot conflict; a request for a slot whose
\* stored appointments have all been cancelled passes the conflict lookup
\* and goes on to create its appointment (the doctor being active for the
\* patient route, the requester having the route's role).
C4_SequentialBookings ==
    \A a \in appointments :
        LET slot == SlotOf(a)
            same == { b \in appointments : SlotOf(b) = slot }
            patientResult ==
                PatientBookingCheck("u1", PatientRequest(slot), appointments, doctors)
            staffResult ==
                StaffBookingCheck("s1", PatientRequest(slot), appointments, doctors)
        IN  /\ a.status = "scheduled" =>
                /\ doctors[slot[1]].status = "active" =>
                       patientResult = Resp(400, "slot_booked")
                /\ staffResult = Resp(400, "slot_booked")
            /\ (\A b \in same : b.status = "cancelled") =>
                /\ doctors[slot[1]].status = "active" => patientResult = Proceed
                /\ staffResult = Proceed

\* C4 witness: a first appointment was cancelled, a second booking by the
\* patient for the same slot was stored as scheduled, and a third request
\* for that slot is now rejected with the slot conflict.
C4_Witness ==
    \E a \in appointments, b \in appointments :
        /\ a.id < b.id
        /\ SlotOf(a) = SlotOf(b)
        /\ a.status = "cancelled"
        /\ b.status = "scheduled"
        /\ b.patientId = "u1"
        /\ PatientBookingCheck("u1", PatientRequest(SlotOf(a)), appointments, doctors)
               = Resp(400, "slot_booked")

\* A stored appointment for the slot has a status that blocks it.
BlockedSlot(slot) ==
    \E a \in appointments :
        SlotOf(a) = slot /\ a.status \in {"scheduled", "confirmed", "in_progress"}

\* The check-availability request for a slot.
AvailabilityRequest(slot) ==
    [complete |-> TRUE, doctorId |-> slot[1], appointmentDate |-> slot[2],
     appointmentTime |-> slot[3]]

\* C13: at each of the three conflict lookups (check-availability, patient
\* booking, staff booking) a request that reaches the lookup is answered with
\* the slot conflict iff a stored appointment for the same doctor, date and
\* time has status scheduled, confirmed or in_progress.
C13_ConflictIffBlockingStatus ==
    \A slot \in BookingSlots :
        /\ doctors[slot[1]].status = "active" =>
              /\ (PatientBookingCheck("u1", PatientRequest(slot), appointments, doctors)
                     = Resp(400, "slot_booked")) <=> BlockedSlot(slot)
              /\ InWorkingWindow(AvailabilityRequest(slot), doctors) =>
                    ( (CheckAvailability(AvailabilityRequest(slot), doctors,
                                         appointments, 0)
                          = Resp(400, "slot_booked")) <=> BlockedSlot(slot) )
        /\ (StaffBookingCheck("s1", PatientRequest(slot), appointments, doctors)
               = Resp(400, "slot_booked")) <=> BlockedSlot(slot)

\* C14: no booking, by either route, stores an appointment for a doctor whose
\* status is not active.
C14_InactiveDoctorNotBooked ==
    [][ \A req \in BagToSet(inflight) :
          BookingCreate(req) => doctors[req.data.doctorId].status = "active" ]_vars

\* C15: no booking stores an appointment whose date and time are not strictly
\* later than the clock.
C15_PastDateTimeNotBooked ==
    [][ \A req \in BagToSet(inflight) :
          BookingCreate(req) =>
             DateTime(req.data.appointmentDate, req.data.appointmentTime) > now ]_vars

\* C16: no booking stores an appointment outside the doctor's working window
\* for the weekday of its date (day unavailable, time before start, time at or
\* after end).
C16_OutsideWorkingHoursNotBooked ==
    [][ \A req \in BagToSet(inflight) :
          BookingCreate(req) => InWorkingWindow(req.data, doctors) ]_vars

\* C17: every appointment a booking stores, by either route and whatever the
\* body carried, has status scheduled.
C17_BookedAsScheduled ==
    [][ \A req \in BagToSet(inflight) :
          BookingCreate(req) =>
             \A a \in appointments' \ appointments : a.status = "scheduled" ]_vars

\* A stored, non-terminal appointment of the slot's doctor and date starts
\* at another time and its duration covers the slot's start time.
OverlappedBy(a, slot) ==
    /\ a.doctorId = slot[1]
    /\ a.appointmentDate = slot[2]
    /\ NonTerminal(a)
    /\ a.appointmentTime # slot[3]
    /\ ParseTime(a.appointmentTime) <= ParseTime(slot[3])
    /\ ParseTime(slot[3]) < ParseTime(a.appointmentTime) + a.duration

\* C19: the conflict lookup matches start times by equality only: a request
\* for a slot that no stored non-terminal appointment holds exactly passes
\* the lookup of either route even when a stored appointment of the same
\* doctor and date overlaps it by its duration (10:00 for 60 minutes against
\* 10:30).
C19_ExactTimeEqualityOnly ==
    \A slot \in BookingSlots :
        ( /\ \E a \in appointments : OverlappedBy(a, slot)
          /\ ~ \E b \in appointments : SlotOf(b) = slot /\ NonTerminal(b) )
        => /\ doctors[slot[1]].status = "active" =>
                 PatientBookingCheck("u1", PatientRequest(slot), appointments, doctors)
                    = Proceed
           /\ StaffBookingCheck("s1", PatientRequest(slot), appointments, doctors)
                 = Proceed

\* C19 witness: both bookings succeeded: the store holds a non-terminal
\* appointment at 10:00 lasting 60 minutes and a later-booked non-terminal
\* appointment of the same doctor and date at 10:30.
C19_Witness ==
    \E a \in appointments, b \in appointments :
        /\ a.id < b.id
        /\ a.appointmentTime = "10:00" /\ a.duration = 60
        /\ b.appointmentTime = "10:30"
        /\ NonTerminal(b)
        /\ OverlappedBy(a, SlotOf(b))

\* C23: a patient who booked an appointment through the self-booking route
\* can cancel it through PUT /:id/cancel while its status is neither completed
\* nor cancelled: the request passes every check of the route and the saved
\* appointment has status cancelled.
C23_SelfBookedCanCancel ==
    \A a \in appointments :
        (a.patientId \in PatientUsers /\ NonTerminal(a))
        => /\ CancelCheck(a.patientId, a.id, appointments) = Proceed
           /\ \A c \in FindById(SaveCancelled(appointments, a.id, a.patientId, now), a.id) :
                  c.status = "cancelled"

\* The check answered the request with a rejection.
Rejection(resp) == resp # Proceed

\* C24: a booking request that is rejected (validation, role, doctor
\* unavailable or not found, patient not found, slot conflict) is answered
\* with an error status, and no step of its handler changes the stored
\* appointments or the requests that are on their way to Appointment.create.
C24_RejectedBookingChangesNothing ==
    \A u \in Users, body \in BookingBodies :
        /\ Rejection(PatientBookingCheck(u, body, appointments, doctors))
           => /\ PatientBookingCheck(u, body, appointments, doctors).status
                    \in {400, 403, 404}
              /\ ENABLED PatientBookingLookup(u, body)
              /\ ~ENABLED (PatientBookingLookup(u, body) /\ ~UNCHANGED apptVars)
        /\ Rejection(StaffBookingCheck(u, body, appointments, doctors))
           => /\ StaffBookingCheck(u, body, appointments, doctors).status
                    \in {400, 403, 404}
              /\ ENABLED StaffBookingLookup(u, body)
              /\ ~ENABLED (StaffBookingLookup(u, body) /\ ~UNCHANGED apptVars)

\* C24 witness: with one appointment stored and another booking on its way to
\* Appointment.create, the patient's requests are rejected for each of the
\* four reasons: a slot conflict, an inactive doctor, a failed validation, and
\* the role (on the staff route).
C24_Witness ==
    /\ appointments # {}
    /\ inflight # EmptyBag
    /\ \E a \in appointments :
          PatientBookingCheck("u1", PatientRequest(SlotOf(a)), appointments, doctors)
              = Resp(400, "slot_booked")
    /\ PatientBookingCheck("u1", PatientRequest(<<"d2", 2, "10:00">>), appointments, doctors)
          = Resp(404, "doctor_unavailable")
    /\ \E body \in BookingBodies :
          PatientBookingCheck("u1", body, appointments, doctors) = Resp(400, "validation")
    /\ PatientBookingCheck("s1", PatientRequest(<<"d1", 1, "10:00">>), appointments, doctors)
          = Resp(403, "only_patients")

\* C25: a requester whose role is patient never creates, updates or deletes
\* an appointment through the staff routes: each of the three is answered 403
\* and no step of its handler changes the appointment store or the bookings
\* in flight.
C25_PatientBarredFromStaffRoutes ==
    \A u \in PatientUsers :
        /\ \A body \in BookingBodies :
              /\ StaffBookingCheck(u, body, appointments, doctors).status = 403
              /\ ENABLED StaffBookingLookup(u, body)
              /\ ~ENABLED (StaffBookingLookup(u, body) /\ ~UNCHANGED apptVars)
        /\ \A id \in AppointmentIds :
              /\ \A body \in UpdateBodies :
                    /\ UpdateCheck(u, id, body, appointments).status = 403
                    /\ ENABLED UpdateAppointment(u, id, body)
                    /\ ~ENABLED (UpdateAppointment(u, id, body) /\ ~UNCHANGED apptVars)
              /\ ENABLED DeleteAppointment(u, id)
              /\ ~ENABLED (DeleteAppointment(u, id) /\ ~UNCHANGED apptVars)

\* C25 witness: two appointments are stored, one booked by the patient, and
\* the patient's staff-route requests on them are answered 403 where the same
\* requests by a receptionist pass.
C25_Witness ==
    \E a \in appointments, b \in appointments :
        /\ a.id # b.id
        /\ a.patientId = "u1"
        /\ NonTerminal(b)
        /\ UpdateCheck("u1", b.id, [valid |-> TRUE, status |-> "cancelled"], appointments)
              = Resp(403, "role_not_authorized")
        /\ UpdateCheck("s1", b.id, [valid |-> TRUE, status |-> "cancelled"], appointments)
              = Proceed
        /\ StaffBookingCheck("u1", PatientRequest(<<"d2", 2, "10:00">>), appointments, doctors)
              = Resp(403, "role_not_authorized")

\* C28: a cancel request on an appointment whose status is completed or
\* cancelled is answered 400 (or, for a patient, with the route's earlier
\* rejection), and no step of its handler changes the appointment: its
\* status, cancelledAt and cancelledBy stay as stored.
C28_TerminalNotCancelledAgain ==
    \A u \in Users, a \in appointments :
        ~NonTerminal(a)
        => /\ CancelCheck(u, a.id, appointments).status >= 400
           /\ requireStaff(u) =>
                  CancelCheck(u, a.id, appointments) = Resp(400, "cannot_be_cancelled")
           /\ ENABLED CancelAppointment(u, a.id)
           /\ ~ENABLED ( /\ CancelAppointment(u, a.id)
                         /\ \E c \in FindById(appointments', a.id) :
                               \/ c.status # a.status
                               \/ c.cancelledAt # a.cancelledAt
                               \/ c.cancelledBy # a.cancelledBy )

\* C28 witness: a completed appointment that was never cancelled and an
\* appointment cancelled through the cancel route are stored, and a further
\* cancel request on either is answered 400.
C28_Witness ==
    \E a \in appointments, b \in appointments :
        /\ a.status = "completed" /\ a.cancelledBy = Absent
        /\ b.status = "cancelled" /\ b.cancelledBy = "s1"
        /\ CancelCheck("s1", a.id, appointments) = Resp(400, "cannot_be_cancelled")
        /\ CancelCheck("s1", b.id, appointments) = Resp(400, "cannot_be_cancelled")

\* C29: a cancel request by a patient on an appointment whose patientId is
\* not the patient's own id is rejected, and no step of its handler changes
\* that appointment's status.
C29_PatientCancelsOnlyOwn ==
    \A u \in PatientUsers, a \in appointments :
        a.patientId # u
        => /\ CancelCheck(u, a.id, appointments).status \in {403, 500}
           /\ ENABLED CancelAppointment(u, a.id)
           /\ ~ENABLED ( /\ CancelAppointment(u, a.id)
                         /\ \E c \in FindById(appointments', a.id) :
                               c.status # a.status )

\* C29 witness: an appointment of another patient that could still be
\* cancelled (staff may cancel it) is stored, and the patient's cancel request
\* on it is answered 403.
C29_Witness ==
    \E a \in appointments :
        /\ a.patientId = "pat1"
        /\ NonTerminal(a)
        /\ CancelCheck("s1", a.id, appointments) = Proceed
        /\ CancelCheck("u1", a.id, appointments) = Resp(403, "only_own_appointments")

-----------------------------------------------------------------------------
(* Claims about bills *)

Max0(x) == IF x < 0 THEN 0 ELSE x

\* C5: every stored bill has subtotal = the sum of its line totals,
\* totalAmount = subtotal + tax - discount clamped at 0, and
\* balance = totalAmount - paidAmount.
C5_DerivedFieldsConsistent ==
    \A b \in bills :
        /\ b.subtotal = SumTotals(b.items)
        /\ b.totalAmount = Max0(b.subtotal + b.tax - b.discount)
        /\ b.balance = b.totalAmount - b.paidAmount

\* C6: a bill whose status is cancelled has status cancelled after the
\* recomputation of its derived fields.
C6_CancelledStaysCancelled ==
    (Len(saved) >= 1 /\ billIn.status = "cancelled") => saved[1].status = "cancelled"

\* The status the four rules give, first match first.
DerivedStatus(b, t) ==
    IF b.balance <= 0 THEN "paid"
    ELSE IF b.paidAmount > 0 THEN "partial"
    ELSE IF t > b.dueDate THEN "overdue"
    ELSE "pending"

\* C7: for a bill that is not cancelled, recomputation sets the status by the
\* first matching rule (paid, partial, overdue, else pending), whatever the
\* status was before.
C7_StatusByFirstMatchingRule ==
    (Len(saved) >= 1 /\ billIn.status # "cancelled")
        => saved[1].status = DerivedStatus(saved[1], now)

\* C8: recomputation yields totalAmount = max(0, subtotal + tax - discount).
C8_TotalAmountClamped ==
    Len(saved) >= 1 =>
        /\ saved[1].totalAmount =
               Max0(saved[1].subtotal + saved[1].tax - saved[1].discount)
        /\ saved[1].totalAmount >= 0

Derived(b) == <<b.subtotal, b.totalAmount, b.balance, b.status>>

\* C9: with the clock fixed, recomputing a bill twice yields the same
\* subtotal, totalAmount, balance and status as recomputing it once.
C9_RecomputeIdempotent ==
    Len(saved) >= 2 => Derived(saved[2]) = Derived(saved[1])

\* C9 witness: a bill with a positive subtotal has been recomputed twice, and
\* the first recomputation changed its derived fields and its status.
C9_Witness ==
    /\ Len(saved) = 2
    /\ saved[1].subtotal > 0
    /\ saved[1].status # billIn.status
    /\ Derived(saved[1]) # Derived(billIn)

-----------------------------------------------------------------------------
(* Claims about check-availability *)

\* C10: for a complete request to an active doctor for a future date and
\* time, the slot-bookable check passes iff the doctor's entry for the
\* requested date's weekday is available and start <= time < end.
C10_SlotBookableIffInWindow ==
    ( /\ availResp # NoResponse
      /\ availReq.complete
      /\ availReq.doctorId \in DOMAIN doctors
      /\ doctors[availReq.doctorId].status = "active"
      /\ DateTime(availReq.appointmentDate, availReq.appointmentTime) > now )
    => (PassedWorkingHours(availResp) <=> InWorkingWindow(availReq, doctors))

\* C20: when paidAmount exceeds totalAmount, the recomputation stores the
\* negative balance totalAmount - paidAmount, unclamped, and the status paid.
C20_OverpaidBalanceNegative ==
    (Len(saved) >= 1 /\ saved[1].paidAmount > saved[1].totalAmount)
        => /\ saved[1].balance = saved[1].totalAmount - saved[1].paidAmount
           /\ saved[1].balance < 0
           /\ saved[1].status = "paid"

\* C20 witness: a bill with a positive total, paid more than its total and
\* not constructed as paid, has been recomputed.
C20_Witness ==
    /\ Len(saved) >= 1
    /\ saved[1].totalAmount > 0
    /\ saved[1].paidAmount > saved[1].totalAmount
    /\ billIn.status # "paid"

\* The sum over the items of quantity x unitPrice
RECURSIVE SumProducts(_)
SumProducts(items) ==
    IF items = << >> THEN 0
    ELSE Head(items).quantity * Head(items).unitPrice + SumProducts(Tail(items))

\* C21: every stored bill has subtotal = the sum over its items of
\* quantity x unitPrice, whatever totals the caller gave the items when
\* creating or updating the bill.
C21_SubtotalFromQuantityAndPrice ==
    \A b \in bills : b.subtotal = SumProducts(b.items)

\* An item of the body has a negative quantity or a negative unitPrice.
HasNegativeItem(body) ==
    \E i \in 1..Len(body.items) :
        body.items[i].quantity < 0 \/ body.items[i].unitPrice < 0

\* C22: a POST /api/billing whose items include a negative quantity or a
\* negative unitPrice is answered with an error and stores no bill; a request
\* that is answered 201 has stored its bill with every derived field
\* computed.
C22_NegativeItemRejected ==
    billResp # NoResponse =>
        /\ HasNegativeItem(billReq.body) => (billResp.status >= 400 /\ bills = {})
        /\ billResp.status = 201 =>
              \E b \in bills :
                  /\ b.items = CalculatedItems(billReq.body.items)
                  /\ b.subtotal \in Int /\ b.totalAmount \in Int /\ b.balance \in Int
                  /\ b.status \in BillStatus

\* C22 witness: a staff request whose items include a negative quantity or
\* unitPrice has been answered 400 and the collection is still empty.
C22_Witness ==
    /\ billResp = Resp(400, "validation")
    /\ requireStaff(billReq.user)
    /\ HasNegativeItem(billReq.body)
    /\ Len(billReq.body.items) = 2
    /\ bills = {}

\* C30: a step that changes the paidAmount of a stored bill that is not
\* cancelled leaves its status paid when paidAmount >= totalAmount and partial
\* when 0 < paidAmount < totalAmount.
C30_PaymentKeepsStatusConsistent ==
    [][ \A b \in bills : \A c \in bills' :
          (b.id = c.id /\ c.paidAmount # b.paidAmount /\ c.status # "cancelled")
          => /\ c.paidAmount >= c.totalAmount => c.status = "paid"
             /\ (0 < c.paidAmount /\ c.paidAmount < c.totalAmount)
                   => c.status = "partial" ]_vars

-----------------------------------------------------------------------------
(* Claims about slot enumeration and the day lookup *)

\* A time of day (minutes since midnight) in the HH:MM form of the doctor
\* schema and of the requests.
TimeOfDay(m) == Pad2((m \div 60) % 24) \o ":" \o Pad2(m % 60)

\* start, start + 30, start + 60, ... strictly before end
RECURSIVE TimesFrom(_, _)
TimesFrom(start, end) ==
    IF start < end THEN <<TimeOfDay(start)>> \o TimesFrom(start + 30, end) ELSE << >>

\* The request names a stored doctor and a date.
NamesDoctorAndDate(req) == req.complete /\ req.doctorId \in DOMAIN doctors

\* The doctor's entry for the weekday of the requested date.
DayEntry(req) == doctors[req.doctorId].availability[Weekday(req.appointmentDate)]

\* C11: for an available day, slot enumeration yields exactly the times
\* start, start + 30, start + 60, ... strictly before end, as times of day
\* ("09:00" first and "16:30" last of 16 for 09:00-17:00).
C11_SlotsAreTimesOfDay ==
    (slots.done /\ NamesDoctorAndDate(availReq) /\ DayEntry(availReq).available)
        => slots.list = TimesFrom(ParseTime(DayEntry(availReq).start),
                                  ParseTime(DayEntry(availReq).end))

\* The request reaches the day lookup of check-availability.
ReachesDayLookup(req) ==
    /\ NamesDoctorAndDate(req)
    /\ doctors[req.doctorId].status = "active"
    /\ DateTime(req.appointmentDate, req.appointmentTime) > now

\* C12: when the requested date's weekday is marked unavailable, slot
\* enumeration returns the empty sequence and the slot-bookable check answers
\* that the doctor is not available, for every time of day.
C12_UnavailableDayHasNoSlots ==
    (NamesDoctorAndDate(availReq) /\ ~DayEntry(availReq).available)
        => /\ slots.done => slots.list = << >>
           /\ (availResp # NoResponse /\ ReachesDayLookup(availReq))
                 => availResp = Resp(400, "not_available_on_day")

\* C18: the day lookup of check-availability never fails: a request that
\* reaches it is never answered with a server error, and it is answered "not
\* available on this day" exactly when the entry of the date's weekday is
\* marked unavailable.
C18_DayLookupNeverThrows ==
    (availResp # NoResponse /\ ReachesDayLookup(availReq))
        => /\ availResp.status # 500
           /\ (availResp = Resp(400, "not_available_on_day"))
                 <=> ~DayEntry(availReq).available

\* The first condition of the availability check that the request violates,
\* in the order doctor, date-time, working hours, conflict.
FirstFailure(req, docs, store, t) ==
    IF req.doctorId \notin DOMAIN docs \/ docs[req.doctorId].status # "active"
        THEN "doctor_unavailable"
    ELSE IF DateTime(req.appointmentDate, req.appointmentTime) <= t
        THEN "must_be_in_future"
    ELSE IF ~docs[req.doctorId].availability[Weekday(req.appointmentDate)].available
        THEN "not_available_on_day"
    ELSE IF ~InWorkingWindow(req, docs)
        THEN "outside_working_hours"
    ELSE IF ExistingAppointment(store,
                <<req.doctorId, req.appointmentDate, req.appointmentTime>>) # {}
        THEN "slot_booked"
    ELSE "available"

\* C26: the availability check reports the first violated condition in the
\* order doctor not active, date-time not in the future, outside working
\* hours, slot conflict, and reports the slot as available when none is
\* violated.
C26_FirstFailureReported ==
    (availResp # NoResponse /\ availReq.complete)
        => /\ availResp.message = FirstFailure(availReq, doctors, appointments, now)
           /\ availResp.status = 200 <=> availResp.message = "available"

\* The patient's self-booking body for the slot of an availability request.
BookingOf(req) ==
    PatientRequest(<<req.doctorId, req.appointmentDate, req.appointmentTime>>)

\* C27: for an active doctor and an in-hours future slot, check-availability
\* reports the slot available iff the patient's self-booking for the same
\* doctor, date and time that follows it is not rejected as a conflict.
C27_CheckAgreesWithBooking ==
    ( /\ availResp # NoResponse
      /\ ReachesDayLookup(availReq)
      /\ InWorkingWindow(availReq, doctors) )
    => ( availResp = Resp(200, "available")
         <=> PatientBookingCheck("u1", BookingOf(availReq), appointments, doctors)
                 # Resp(400, "slot_booked") )

====
